---- MODULE Spec2Model ----
(***************************************************************************)
(* Travel-Path: the route generation endpoint (app/routers/trips.py,       *)
(* generate_routes) and the routing wrapper with its failed-mode cache     *)
(* (app/services/maps_service.py, MapsService).                            *)
(*                                                                         *)
(* Units: ratings are in tenths (3.5 -> 35), route lengths in metres,      *)
(* formatted distances in tenths of a kilometre.  Texts are sequences of   *)
(* one-character strings.                                                  *)
(***************************************************************************)
EXTENDS Integers, Sequences, FiniteSets, TLC

\* ------------------------------------------------------------------------
\* Bounds of the model
\* ------------------------------------------------------------------------
NumCalls == 2
MaxN == 2
MaxPoolMain == 3
MaxPoolSel == 6
MaxNSel == 4
MaxStops == 8
MaxPriced == 3
MaxPhotos == 10
MaxFiltered == 5
MaxTimed == 2

\* ------------------------------------------------------------------------
\* Program constants
\* ------------------------------------------------------------------------
MaxSearch == 60
MinPlaces == 3
QualityRating == 35
NumVariants == 3
NoRating == -1
NoPrice == -1
Inf == 999999

Calls == 1..NumCalls
Modes == {"walking", "driving", "transit", "bicycling"}
RatingVals == {NoRating, 40, 50}
MainRatings == {40}
MainDists == {1}
SelDists == {0, 1, 2}
RouteMeters == {1200, 4000}
RouteSeconds == {1800}

Min(a, b) == IF a < b THEN a ELSE b
Range(s) == {s[i] : i \in 1..Len(s)}
Take(s, k) == SubSeq(s, 1, Min(k, Len(s)))
Drop(s, k) == SubSeq(s, k + 1, Len(s))
Ids(s) == {s[i].id : i \in 1..Len(s)}

\* Python's sorted()/list.sort(): a stable ascending sort of s, keys[i] being
\* the key of s[i].
StableSort(s, keys) ==
  LET n == Len(s)
      rank(i) == 1 + Cardinality({j \in 1..n :
                     \/ keys[j] < keys[i]
                     \/ (keys[j] = keys[i] /\ j < i)})
  IN [k \in 1..n |-> s[CHOOSE i \in 1..n : rank(i) = k]]

\* ------------------------------------------------------------------------
\* Candidates and the search result
\* ------------------------------------------------------------------------
RatingOrZero(p) == IF p.rating = NoRating THEN 0 ELSE p.rating
DistanceOrInf(p) == IF p.distance = 0 THEN Inf ELSE p.distance
NegRating(p) == 0 - RatingOrZero(p)

\* search_places_by_theme sorts by (-(rating or 0), distance or inf)
SearchOrdered(a, b) ==
  \/ NegRating(a) < NegRating(b)
  \/ (NegRating(a) = NegRating(b) /\ DistanceOrInf(a) <= DistanceOrInf(b))

\* the types the search reports for the k-th place it found
TypesFound(k) == IF k % 2 = 1 THEN {"museum"} ELSE {"park"}

\* The lists search_places_by_theme can return with k places: ids are
\* distinct (seen_place_ids), the list is in its final sort order.
RECURSIVE SearchResults(_, _, _)
SearchResults(k, ratings, dists) ==
  IF k = 0 THEN {<< >>}
  ELSE LET prev == SearchResults(k - 1, ratings, dists)
           cands == [id : {k}, rating : ratings, distance : dists,
                     types : {TypesFound(k)}]
       IN {Append(x[1], x[2]) :
             x \in {y \in prev \X cands :
                      k = 1 \/ SearchOrdered(y[1][k - 1], y[2])}}

\* max_places_to_search = min(num_places * 3, 60)
MaxPlacesToSearch(n) == Min(n * 3, MaxSearch)

SearchOutcomes(n, maxPool, ratings, dists) ==
  UNION {SearchResults(k, ratings, dists) :
           k \in 0..Min(MaxPlacesToSearch(n), maxPool)}

\* the handler goes on with a single candidate
EnoughPlacesOne(place_suggestions) == Len(place_suggestions) >= 1

\* if len(place_suggestions) < 3: raise HTTPException(404)
EnoughPlaces(place_suggestions) == Len(place_suggestions) >= MinPlaces

\* the filtered list is kept however short it is
QualityPlacesOnly(suggestions) ==
  LET good(p) == RatingOrZero(p) >= QualityRating
  IN SelectSeq(suggestions, good)

\* quality_places: rating >= 3.5, or everything when fewer than 3 qualify
QualityPlaces(suggestions) ==
  LET good(p) == RatingOrZero(p) >= QualityRating
      q == SelectSeq(suggestions, good)
  IN IF Len(q) < MinPlaces THEN suggestions ELSE q

RequestedPlaces(n, quality) == Min(n, Len(quality))
PlacesByDistance(quality) ==
  StableSort(quality, [i \in 1..Len(quality) |-> DistanceOrInf(quality[i])])
\* sorted(..., reverse=True) keeps the order of places with equal ratings
ByRating(places) ==
  StableSort(places, [i \in 1..Len(places) |-> NegRating(places[i])])
PlacesByRating(quality) == ByRating(quality)

\* ------------------------------------------------------------------------
\* The three selection strategies (generate_routes, the loop body)
\* ------------------------------------------------------------------------
\* for p in src: if p not in sel: sel.append(p); if len(sel) >= n: break
RECURSIVE FillAny(_, _, _)
FillAny(sel, src, n) ==
  IF src = << >> THEN sel
  ELSE LET p == Head(src)
           s2 == IF p \in Range(sel) THEN sel ELSE Append(sel, p)
       IN IF Len(s2) >= n THEN s2 ELSE FillAny(s2, Tail(src), n)

\* the same loop with the extra test "p.google_place_id not in used_place_ids"
RECURSIVE FillUnused(_, _, _, _)
FillUnused(sel, src, used, n) ==
  IF src = << >> THEN sel
  ELSE LET p == Head(src)
           s2 == IF p \in Range(sel) \/ p.id \in used THEN sel ELSE Append(sel, p)
       IN IF Len(s2) >= n THEN s2 ELSE FillUnused(s2, Tail(src), used, n)

\* the used places stay among the places to choose from
AvailableAll(src, used) == src

\* [p for p in src if p.google_place_id not in used_place_ids]
Available(src, used) ==
  LET unused(p) == p.id \notin used IN SelectSeq(src, unused)

\* a selector that never falls back to used places
BackfillNone(sel, src, n) == sel

Backfill(sel, src, n) == IF Len(sel) < n THEN FillAny(sel, src, n) ELSE sel

SelectClosest(quality, used, n) ==
  Backfill(Take(Available(PlacesByDistance(quality), used), n),
           PlacesByDistance(quality), n)

SelectBestRated(quality, used, n) ==
  Backfill(Take(Available(PlacesByRating(quality), used), n),
           PlacesByRating(quality), n)

SkipCount(quality, n) == Min(Len(quality) \div 2, n)

\* the middle range is added whether its places were used or not
MiddleFillAny(sel, quality, used, n) ==
  LET skip == SkipCount(quality, n)
      middle == SubSeq(PlacesByDistance(quality), (skip \div 2) + 1, skip)
  IN IF Len(sel) < n THEN FillAny(sel, middle, n) ELSE sel

\* if short: for p in places_by_distance[skip_count//2:skip_count], unused only
MiddleFill(sel, quality, used, n) ==
  LET skip == SkipCount(quality, n)
      middle == SubSeq(PlacesByDistance(quality), (skip \div 2) + 1, skip)
  IN IF Len(sel) < n THEN FillUnused(sel, middle, used, n) ELSE sel

SelectFurthestGood(quality, used, n) ==
  LET byDist == PlacesByDistance(quality)
      further == Available(Drop(byDist, SkipCount(quality, n)), used)
      first == Take(ByRating(further), n)
  IN Backfill(MiddleFill(first, quality, used, n), byDist, n)

\* route_configs[idx - 1]["selection"]
Strategy(i) ==
  CASE i = 1 -> "closest" [] i = 2 -> "best_rated" [] OTHER -> "furthest_good"

SelectPlaces(i, quality, used, n) ==
  CASE Strategy(i) = "closest" -> SelectClosest(quality, used, n)
    [] Strategy(i) = "best_rated" -> SelectBestRated(quality, used, n)
    [] OTHER -> SelectFurthestGood(quality, used, n)

\* the selection is not recorded
MarkUsedNone(used, sel) == used

\* for p in selected_places: used_place_ids.add(p.google_place_id)
MarkUsed(used, sel) == used \cup Ids(sel)

\* ------------------------------------------------------------------------
\* Distances as texts: f"{km:.1f} km" and parse_distance
\* ------------------------------------------------------------------------
Digit == <<"0", "1", "2", "3", "4", "5", "6", "7", "8", "9">>
DigitValue(c) == CHOOSE d \in 0..9 : Digit[d + 1] = c
IsDigit(c) == \E d \in 0..9 : Digit[d + 1] = c

RECURSIVE NatToText(_)
NatToText(k) ==
  IF k < 10 THEN <<Digit[k + 1]>>
  ELSE Append(NatToText(k \div 10), Digit[(k % 10) + 1])

RECURSIVE TextToNat(_)
TextToNat(t) ==
  IF Len(t) = 1 THEN DigitValue(t[1])
  ELSE 10 * TextToNat(SubSeq(t, 1, Len(t) - 1)) + DigitValue(t[Len(t)])

\* f"{x:.1f} km" for x = tenths / 10
FormatKm(tenths) ==
  NatToText(tenths \div 10) \o <<".", Digit[(tenths % 10) + 1]>> \o <<" ", "k", "m">>

\* calculate_walking_distance: the share of the route that is walked, in percent
WalkingPercent(mode) ==
  CASE mode = "walking" -> 100
    [] mode = "bicycling" -> 20
    [] mode = "transit" -> 40
    [] OTHER -> 35

\* Rounding to the nearest tenth of a kilometre.  The route lengths of
\* RouteMeters are chosen away from the half-way cases, where the result
\* of the float arithmetic depends on the binary representation.
RoundDiv(a, b) == (2 * a + b) \div (2 * b)
TotalDistanceText(meters) == FormatKm(RoundDiv(meters, 100))
WalkingDistanceText(meters, mode) ==
  FormatKm(RoundDiv(meters * WalkingPercent(mode), 10000))

\* d.replace(" km", "")
RECURSIVE RemoveKm(_)
RemoveKm(t) ==
  IF t = << >> THEN << >>
  ELSE IF Len(t) >= 3 /\ SubSeq(t, 1, 3) = <<" ", "k", "m">>
       THEN RemoveKm(SubSeq(t, 4, Len(t)))
       ELSE <<Head(t)>> \o RemoveKm(Tail(t))

\* .replace(",", ".")
CommaToDot(t) == [i \in 1..Len(t) |-> IF t[i] = "," THEN "." ELSE t[i]]

AllDigits(t) == t # << >> /\ \A i \in 1..Len(t) : IsDigit(t[i])

\* float(t) in tenths, for texts with at most one decimal; -1 stands for
\* the ValueError of a text that is no number.
FloatTenths(t) ==
  IF AllDigits(t) THEN 10 * TextToNat(t)
  ELSE IF /\ Len(t) >= 3
          /\ t[Len(t) - 1] = "."
          /\ IsDigit(t[Len(t)])
          /\ AllDigits(SubSeq(t, 1, Len(t) - 2))
       THEN 10 * TextToNat(SubSeq(t, 1, Len(t) - 2)) + DigitValue(t[Len(t)])
       ELSE -1

\* parse_distance: unparsable -> 0.0
ParseDistance(d) ==
  LET v == FloatTenths(CommaToDot(RemoveKm(d)))
  IN IF v < 0 THEN 0 ELSE v

WalkingKey(r) == ParseDistance(r.walking_distance)

\* the list is left in build order
SortRoutesNone(rs) == rs

\* routes.sort(key=lambda r: parse_distance(r.walking_distance))
SortRoutes(rs) ==
  StableSort(rs, [i \in 1..Len(rs) |-> WalkingKey(rs[i])])

DifficultyNames == <<"Facile", "Moyen", "Difficile">>
DifficultyIds == <<"route_facile", "route_moyen", "route_difficile">>
VariantId(i) ==
  CASE i = 1 -> "route_variant_1" [] i = 2 -> "route_variant_2"
    [] OTHER -> "route_variant_3"

\* the routes keep the id and the name they were built with
AssignNamesNone(rs) == rs

\* for i, route in enumerate(routes): if i < 3: route.name = ...; route.id = ...
AssignNames(rs) ==
  [i \in 1..Len(rs) |->
     IF i <= Len(DifficultyNames)
     THEN [rs[i] EXCEPT !.name = DifficultyNames[i], !.id = DifficultyIds[i]]
     ELSE rs[i]]

\* the empty list is returned like any other
NeverAllFailed(rs) == FALSE

\* if len(routes) == 0: raise HTTPException(500)
AllVariantsFailed(rs) == Len(rs) = 0

\* ------------------------------------------------------------------------
\* calculate_smart_difficulty
\* ------------------------------------------------------------------------
Contains(t, c) == \E i \in 1..Len(t) : t[i] = c

\* t.replace(c, "") for a single character c
RemoveChar(t, c) == SelectSeq(t, LAMBDA x : x # c)

FirstIndex(t, c) == CHOOSE i \in 1..Len(t) : t[i] = c /\ \A j \in 1..(i - 1) : t[j] # c
BeforeFirst(t, c) == IF Contains(t, c) THEN SubSeq(t, 1, FirstIndex(t, c) - 1) ELSE t
AfterFirst(t, c) == SubSeq(t, FirstIndex(t, c) + 1, Len(t))

\* t.strip(), the blank being the only white space of the texts at hand
RECURSIVE Strip(_)
Strip(t) ==
  IF t = << >> THEN t
  ELSE IF Head(t) = " " THEN Strip(Tail(t))
  ELSE IF t[Len(t)] = " " THEN Strip(SubSeq(t, 1, Len(t) - 1))
  ELSE t

\* int(t) for an unsigned decimal; -1 stands for the ValueError
IntOf(t) == IF AllDigits(t) THEN TextToNat(t) ELSE -1

\* the text is split at the "h" with its "m" left in place
DurationMinutesKeepsM(duration) ==
  IF Contains(duration, "h")
  THEN LET part0 == BeforeFirst(duration, "h")
           part1 == BeforeFirst(AfterFirst(duration, "h"), "h")
           hours == IntOf(Strip(part0))
           minutes == IF Strip(part1) # << >> THEN IntOf(Strip(part1)) ELSE 0
       IN IF hours < 0 \/ minutes < 0 THEN -1 ELSE hours * 60 + minutes
  ELSE IntOf(Strip(RemoveChar(duration, "m")))

\* the duration in minutes as the scorer reads it, -1 when an exception is
\* raised on the way
DurationMinutes(duration) ==
  IF Contains(duration, "h")
  THEN LET text == RemoveChar(duration, "m")
           part0 == BeforeFirst(text, "h")
           part1 == BeforeFirst(AfterFirst(text, "h"), "h")
           hours == IntOf(Strip(part0))
           minutes == IF Strip(part1) # << >> THEN IntOf(Strip(part1)) ELSE 0
       IN IF hours < 0 \/ minutes < 0 THEN -1 ELSE hours * 60 + minutes
  ELSE IntOf(Strip(RemoveChar(duration, "m")))

\* 1. walking distance, in tenths of a kilometre
WalkingPoints(tenths) ==
  IF tenths < 20 THEN 5
  ELSE IF tenths < 30 THEN 10
  ELSE IF tenths < 50 THEN 20
  ELSE IF tenths < 70 THEN 30
  ELSE 40

\* 2. number of places
PlacesPoints(num_places) ==
  IF num_places <= 3 THEN 5
  ELSE IF num_places <= 5 THEN 12
  ELSE IF num_places <= 7 THEN 20
  ELSE 25

\* 3. duration; except: score += 10
DurationPoints(duration) ==
  LET m == DurationMinutes(duration)
  IN IF m < 0 THEN 10
     ELSE IF m < 120 THEN 3
     ELSE IF m < 180 THEN 8
     ELSE IF m < 240 THEN 15
     ELSE 20

EnergyDemandingTypes ==
  {"museum", "art_gallery", "church", "library", "aquarium", "zoo"}
RelaxingTypes == {"park", "garden", "natural_feature", "scenic_lookout"}

\* the number of places with a type in tags
CountOfTypes(places, tags) ==
  Cardinality({i \in 1..Len(places) : places[i].types \cap tags # {}})

\* max(num_places, 1)
AtLeastOne(num_places) == IF num_places > 1 THEN num_places ELSE 1

\* the relaxing share is looked at first
TypePointsRelaxingFirst(num_places, places) ==
  LET d == AtLeastOne(num_places)
      energy == CountOfTypes(places, EnergyDemandingTypes)
      relaxing == CountOfTypes(places, RelaxingTypes)
  IN IF 2 * relaxing > d THEN 3
     ELSE IF 2 * energy > d THEN 15
     ELSE IF 10 * energy > 3 * d THEN 10
     ELSE 7

\* 4. type of places: energy_ratio > 0.5, > 0.3, relaxing_ratio > 0.5
TypePoints(num_places, places) ==
  LET d == AtLeastOne(num_places)
      energy == CountOfTypes(places, EnergyDemandingTypes)
      relaxing == CountOfTypes(places, RelaxingTypes)
  IN IF 2 * energy > d THEN 15
     ELSE IF 10 * energy > 3 * d THEN 10
     ELSE IF 2 * relaxing > d THEN 3
     ELSE 7

\* float(walking_distance.replace(" km", "").replace(",", ".")), in tenths;
\* -1 stands for the ValueError, which the function lets through
WalkingKm(walking_distance) == FloatTenths(CommaToDot(RemoveKm(walking_distance)))

DifficultyScore(walking_distance, duration, num_places, places) ==
  WalkingPoints(WalkingKm(walking_distance)) + PlacesPoints(num_places)
    + DurationPoints(duration) + TypePoints(num_places, places)

\* easy up to 35 only when the score is below it
DifficultyOfScoreStrict(score) ==
  IF score < 35 THEN "easy" ELSE IF score < 65 THEN "moderate" ELSE "hard"

\* if score <= 35: "easy" elif score <= 65: "moderate" else: "hard"
DifficultyOfScore(score) ==
  IF score <= 35 THEN "easy" ELSE IF score <= 65 THEN "moderate" ELSE "hard"

calculate_smart_difficulty(walking_distance, duration, num_places, places) ==
  IF WalkingKm(walking_distance) < 0 THEN "ValueError"
  ELSE DifficultyOfScore(
         DifficultyScore(walking_distance, duration, num_places, places))

\* ------------------------------------------------------------------------
\* Enrichment of one stop: details and photos
\* ------------------------------------------------------------------------
UserPhotoLimit == 5
GoogleExtra == 3
PhotoCap == 8

\* what a photo collaborator returns when it holds avail photos and is
\* asked for at most max_photos: photo_urls[:max_photos], [] after an error
PhotoUrls(avail, max_photos, fails) ==
  IF fails THEN << >> ELSE [i \in 1..Min(avail, max_photos) |-> i]

\* google_photos_needed = max(0, 5 - len(user_photos))
GooglePhotosNeeded(user_photos) ==
  IF UserPhotoLimit - Len(user_photos) > 0
  THEN UserPhotoLimit - Len(user_photos) ELSE 0

\* for url in google_photos: if len(all_photos) < 8: append
RECURSIVE AppendGoogle(_, _)
AppendGoogle(all_photos, google_photos) ==
  IF google_photos = << >> THEN all_photos
  ELSE AppendGoogle(
         IF Len(all_photos) < PhotoCap
         THEN Append(all_photos, [url |-> Head(google_photos), source |-> "google"])
         ELSE all_photos,
         Tail(google_photos))

UserTagged(user_photos) ==
  [i \in 1..Len(user_photos) |-> [url |-> user_photos[i], source |-> "user"]]

\* the Google photos are put in front
CombineGoogleFirst(user_photos, google_photos) ==
  AppendGoogle(<< >>, google_photos) \o UserTagged(user_photos)

\* all_photos: the user photos, then the Google photos
CombinePhotos(user_photos, google_photos) ==
  AppendGoogle(UserTagged(user_photos), google_photos)

\* the photo lookups for one stop; photos is what the two collaborators
\* hold and whether their lookup fails
StopPhotos(photos) ==
  LET user_photos == PhotoUrls(photos.user, UserPhotoLimit, photos.user_fails)
      needed == GooglePhotosNeeded(user_photos)
      google_photos ==
        IF needed > 0
        THEN PhotoUrls(photos.google, needed + GoogleExtra, photos.google_fails)
        ELSE << >>
  IN CombinePhotos(user_photos, google_photos)

\* the exception of get_place_details is not caught
EnrichStopDetailRaises(place_sugg, detail, photos) ==
  IF detail.kind = "error" THEN [raised |-> "HTTPException"]
  ELSE [id |-> place_sugg.id, rating |-> detail.rating, types |-> detail.types,
        price_level |-> detail.price_level, photos |-> StopPhotos(photos)]

\* PlaceWithPhotos from get_place_details, or from the suggestion itself
\* when the lookup raised
EnrichStop(place_sugg, detail, photos) ==
  [id |-> place_sugg.id,
   rating |-> IF detail.kind = "ok" THEN detail.rating ELSE place_sugg.rating,
   types |-> IF detail.kind = "ok" THEN detail.types ELSE place_sugg.types,
   price_level |-> IF detail.kind = "ok" THEN detail.price_level ELSE NoPrice,
   photos |-> StopPhotos(photos)]

\* ------------------------------------------------------------------------
\* Duration of a route (MapsService)
\* ------------------------------------------------------------------------
\* _estimate_visit_time: minutes for one place, by the first group that
\* shares a type with it
VisitMinutes(types) ==
  IF types \cap {"museum", "art_gallery", "aquarium", "zoo"} # {} THEN 75
  ELSE IF types \cap {"restaurant", "cafe", "bar", "meal_takeaway"} # {} THEN 50
  ELSE IF types \cap {"park", "natural_feature", "garden", "hiking_area"} # {} THEN 35
  ELSE IF types \cap {"shopping_mall", "store", "clothing_store"} # {} THEN 45
  ELSE IF types \cap {"church", "tourist_attraction", "landmark", "monument"} # {} THEN 20
  ELSE IF types \cap {"amusement_park", "movie_theater", "bowling_alley"} # {} THEN 90
  ELSE 30

RECURSIVE SumVisitMinutes(_)
SumVisitMinutes(places) ==
  IF places = << >> THEN 0
  ELSE VisitMinutes(Head(places).types) + SumVisitMinutes(Tail(places))

EstimateVisitTime(places) == SumVisitMinutes(places) * 60

\* every mode costs what driving costs
EstimateOverheadFlat(num_places, mode) == num_places * 7 * 60

\* _estimate_overhead, in seconds
EstimateOverhead(num_places, mode) ==
  CASE mode = "walking" -> num_places * 60
    [] mode = "transit" -> num_places * 10 * 60
    [] mode = "bicycling" -> num_places * 3 * 60
    [] OTHER -> num_places * 7 * 60

\* f"{hours}h {minutes}m" or f"{minutes}m"
DurationText(seconds) ==
  LET duration_hours == seconds \div 3600
      duration_minutes == (seconds % 3600) \div 60
  IN IF duration_hours > 0
     THEN NatToText(duration_hours) \o <<"h", " ">>
            \o NatToText(duration_minutes) \o <<"m">>
     ELSE NatToText(duration_minutes) \o <<"m">>

\* total_with_visits
TotalWithVisits(travel_seconds, places, mode) ==
  travel_seconds + EstimateVisitTime(places) + EstimateOverhead(Len(places), mode)

\* ------------------------------------------------------------------------
\* The price of a route
\* ------------------------------------------------------------------------
\* price_levels = [p.price_level for p in places_with_photos
\*                 if p.price_level is not None]
PriceLevels(places) ==
  {places[i].price_level : i \in 1..Len(places)} \ {NoPrice}

MaxOf(S) == CHOOSE x \in S : \A y \in S : y <= x
MinOf(S) == CHOOSE x \in S : \A y \in S : x <= y

PriceSymbol(level) ==
  IF level <= 1 THEN "$"
  ELSE IF level <= 2 THEN "$$"
  ELSE IF level <= 3 THEN "$$$"
  ELSE "$$$$"

\* the cheapest stop decides
AvgPriceOfCheapest(places) ==
  IF PriceLevels(places) # {} THEN PriceSymbol(MinOf(PriceLevels(places)))
  ELSE "$"

\* avg_price: the symbol of max(price_levels), "$" without any price level
AvgPrice(places) ==
  IF PriceLevels(places) # {} THEN PriceSymbol(MaxOf(PriceLevels(places)))
  ELSE "$"

\* ------------------------------------------------------------------------
\* MapsService: the failed-mode cache and the routing call
\* ------------------------------------------------------------------------
\* the cache survives the start of a request
ResetKeeps(fm) == fm

\* reset_failed_modes_cache: if self._failed_modes: self._failed_modes.clear()
ResetFailedModes(fm) == IF fm # {} THEN {} ELSE fm

\* the cache is not consulted
EffectiveModeNoCache(mode, fm) == mode

\* effective_mode at the start of build_route_with_optimization
EffectiveMode(mode, fm) ==
  IF mode \in fm /\ mode # "driving" THEN "driving" ELSE mode

\* every timeout is retried
AlwaysRetries(effective) == TRUE

\* except Timeout: if effective_mode != "driving": cache and retry, else raise
RetriesAfterTimeout(effective) == effective # "driving"

\* route.get("waypoint_order"): indices into the submitted stops, from 0
Identity(k) == [i \in 1..k |-> i - 1]
Reverse(k) == [i \in 1..k |-> k - i]
WaypointOrders(k) == {Identity(k), Reverse(k), <<k>>}

\* what client.directions can do
DirectionsOutcomes(k) ==
  {[kind |-> "timeout"], [kind |-> "error"]} \cup
  [kind : {"ok"}, meters : RouteMeters, seconds : RouteSeconds,
   order : WaypointOrders(k)]

\* ordered_places = [places_with_photos[i] for i in optimized_order];
\* an index outside the list raises IndexError
OrderValid(order, places) == \A i \in 1..Len(order) : order[i] < Len(places)

\* the stops stay in the order they were submitted in
ReorderNone(order, places) == [i \in 1..Len(order) |-> places[i]]

Reorder(order, places) == [i \in 1..Len(order) |-> places[order[i] + 1]]

\* the result of build_route_with_optimization for an answer o of
\* client.directions in mode effective (mode, meters and seconds are kept
\* as history)
RouteData(places, effective, o) ==
  [total_distance |-> TotalDistanceText(o.meters),
   walking_distance |-> WalkingDistanceText(o.meters, effective),
   duration |-> DurationText(TotalWithVisits(o.seconds, places, effective)),
   optimized_order |-> o.order,
   mode |-> effective,
   meters |-> o.meters,
   seconds |-> o.seconds]

\* RouteOption(...), built for the config at position i
RouteOption(i, places, route_data) ==
  [id |-> VariantId(i),
   name |-> "",
   total_distance |-> route_data.total_distance,
   walking_distance |-> route_data.walking_distance,
   difficulty |-> calculate_smart_difficulty(route_data.walking_distance,
                    route_data.duration, Len(places), places),
   avg_price |-> AvgPrice(places),
   duration |-> route_data.duration,
   num_places |-> Len(route_data.optimized_order),
   places |-> Reorder(route_data.optimized_order, places),
   variant |-> i,
   mode |-> route_data.mode,
   order |-> route_data.optimized_order,
   meters |-> route_data.meters,
   seconds |-> route_data.seconds]

\* the first exception ends the loop
ExceptBreak(i) == NumVariants + 1

\* except Exception: continue -- the loop goes on with the next config
AfterVariantError(i) == i + 1

\* ------------------------------------------------------------------------
\* State
\* ------------------------------------------------------------------------
VARIABLES
  failed_modes,        \* maps_service._failed_modes, one set for the process
  status,              \* per request: "pending", "running" or "done"
  cur,                 \* the request whose handler is executing, 0 if none
  pc,                  \* where that handler is
  req,                 \* its request: num_places, transport_mode
  quality_places,      \* its candidate pool
  idx,                 \* its position in route_configs, from 1
  used_place_ids,
  selected_places,
  places_with_photos,
  routes,
  response,            \* the response of the handler that returned last
  calls_log,           \* history: the routing calls of the executing handler
  outcome,             \* history: per variant "none", "ok" or "failed"
  selections,          \* history: the selections made so far, by variant
  used_seen,           \* history: used_place_ids as each strategy read it
  lookups,             \* history: the search, detail and photo calls made
  own_failed,          \* history: per running request, the modes it saw time out
  stale,               \* history: the cache as the executing handler found it,
                       \* kept while its first variant is built
  args,                \* a function of the program called on its own: its
  result               \*   arguments and what it returned

vars == <<failed_modes, status, cur, pc, req, quality_places, idx,
          used_place_ids, selected_places, places_with_photos, routes,
          response, calls_log, outcome, selections, used_seen, lookups,
          own_failed, stale, args, result>>

direct == <<args, result>>
NoArgs == [fn |-> "none"]
NoResult == [fn |-> "none"]

NoRequest == [num_places |-> 0, transport_mode |-> "driving"]
NoResponse == [call |-> 0, kind |-> "none", routes |-> << >>]
NoOutcome == [v \in 1..NumVariants |-> "none"]
NoLookups ==
  [search |-> 0, found |-> 0, detail |-> 0, user_photos |-> 0,
   google_photos |-> 0]

\* no handler is executing
HandlerIdle ==
  /\ failed_modes = {}
  /\ status = [c \in Calls |-> "pending"]
  /\ cur = 0
  /\ pc = "idle"
  /\ req = NoRequest
  /\ quality_places = << >>
  /\ idx = 0
  /\ used_place_ids = {}
  /\ selected_places = << >>
  /\ places_with_photos = << >>
  /\ routes = << >>
  /\ response = NoResponse
  /\ calls_log = << >>
  /\ outcome = NoOutcome
  /\ selections = << >>
  /\ used_seen = << >>
  /\ lookups = NoLookups
  /\ own_failed = [c \in Calls |-> {}]
  /\ stale = {}

Init ==
  /\ HandlerIdle
  /\ args = NoArgs
  /\ result = NoResult

\* handlers that could be started while another one is suspended
LoopAlwaysFree == TRUE

\* generate_routes is a coroutine without any await: once the event loop
\* has started a handler it runs it to its end before it starts another.
LoopIdle == cur = 0

\* requests are numbered in the order the event loop takes them up
NextInQueue(c) == IF c = 1 THEN TRUE ELSE status[c - 1] # "pending"

History == <<calls_log, outcome, selections, used_seen, lookups>>

\* the handler returns or raises: its frame is gone, the response is sent
Return(kind, rs) ==
  /\ response' = [call |-> cur, kind |-> kind, routes |-> rs]
  /\ status' = [status EXCEPT ![cur] = "done"]
  /\ own_failed' = [own_failed EXCEPT ![cur] = {}]
  /\ cur' = 0
  /\ pc' = "idle"
  /\ req' = NoRequest
  /\ quality_places' = << >>
  /\ idx' = 0
  /\ used_place_ids' = {}
  /\ selected_places' = << >>
  /\ places_with_photos' = << >>
  /\ routes' = << >>
  /\ stale' = {}

\* the loop moves to the config at position i, or leaves the loop
LoopTo(i) ==
  /\ idx' = i
  /\ pc' = IF i > NumVariants THEN "assemble" ELSE "select"
  /\ selected_places' = << >>
  /\ places_with_photos' = << >>
  /\ stale' = {}

\* an exception inside the loop body: logged, the variant is left out
VariantError ==
  /\ outcome' = [outcome EXCEPT ![idx] = "failed"]
  /\ LoopTo(AfterVariantError(idx))
  /\ UNCHANGED routes

\* ------------------------------------------------------------------------
\* The handler, step by step
\* ------------------------------------------------------------------------
Start(c) ==
  /\ status[c] = "pending"
  /\ NextInQueue(c)
  /\ LoopIdle
  /\ \E n \in 1..MaxN, m \in Modes :
       req' = [num_places |-> n, transport_mode |-> m]
  /\ stale' = failed_modes
  /\ failed_modes' = ResetFailedModes(failed_modes)
  /\ status' = [status EXCEPT ![c] = "running"]
  /\ own_failed' = [own_failed EXCEPT ![c] = {}]
  /\ cur' = c
  /\ pc' = "geocode"
  /\ quality_places' = << >>
  /\ idx' = 0
  /\ used_place_ids' = {}
  /\ selected_places' = << >>
  /\ places_with_photos' = << >>
  /\ routes' = << >>
  /\ response' = NoResponse
  /\ calls_log' = << >>
  /\ outcome' = NoOutcome
  /\ selections' = << >>
  /\ used_seen' = << >>
  /\ lookups' = NoLookups
  /\ UNCHANGED direct

GeocodeOk ==
  /\ pc = "geocode"
  /\ pc' = "search"
  /\ UNCHANGED <<failed_modes, status, cur, req, quality_places, idx,
                 used_place_ids, selected_places, places_with_photos, routes,
                 response, own_failed, stale>>
  /\ UNCHANGED History
  /\ UNCHANGED direct

GeocodeFails ==
  /\ pc = "geocode"
  /\ Return("client_error", << >>)
  /\ UNCHANGED failed_modes
  /\ UNCHANGED History
  /\ UNCHANGED direct

SearchTooFew ==
  /\ pc = "search"
  /\ \E sr \in SearchOutcomes(req.num_places, MaxPoolMain, MainRatings, MainDists) :
       /\ ~EnoughPlaces(sr)
       /\ lookups' = [lookups EXCEPT !.search = @ + 1, !.found = Len(sr)]
  /\ Return("not_found", << >>)
  /\ UNCHANGED failed_modes
  /\ UNCHANGED <<calls_log, outcome, selections, used_seen>>
  /\ UNCHANGED direct

Search ==
  /\ pc = "search"
  /\ \E sr \in SearchOutcomes(req.num_places, MaxPoolMain, MainRatings, MainDists) :
       /\ EnoughPlaces(sr)
       /\ quality_places' = QualityPlaces(sr)
       /\ lookups' = [lookups EXCEPT !.search = @ + 1, !.found = Len(sr)]
  /\ routes' = << >>
  /\ used_place_ids' = {}
  /\ idx' = 1
  /\ pc' = "select"
  /\ UNCHANGED <<failed_modes, status, cur, req, selected_places,
                 places_with_photos, response, own_failed, stale>>
  /\ UNCHANGED <<calls_log, outcome, selections, used_seen>>
  /\ UNCHANGED direct

Select ==
  /\ pc = "select"
  /\ LET n == RequestedPlaces(req.num_places, quality_places)
         sel == SelectPlaces(idx, quality_places, used_place_ids, n)
     IN /\ used_place_ids' = MarkUsed(used_place_ids, sel)
        /\ selections' = Append(selections, sel)
        /\ used_seen' = Append(used_seen, used_place_ids)
        /\ IF Len(sel) # n
           THEN \* the warning reads config['name'], which no config has
                VariantError
           ELSE /\ selected_places' = sel
                /\ pc' = "enrich"
                /\ UNCHANGED <<idx, places_with_photos, routes, outcome, stale>>
  /\ UNCHANGED <<failed_modes, status, cur, req, quality_places, response,
                 calls_log, lookups, own_failed>>
  /\ UNCHANGED direct

\* what the collaborators answer about a stop here: its details with a
\* price level, one user photo and one Google photo
DetailFound(p) ==
  [kind |-> "ok", rating |-> p.rating, types |-> p.types, price_level |-> 2]
PhotosFound ==
  [user |-> 1, user_fails |-> FALSE, google |-> 1, google_fails |-> FALSE]

Enriched(p) == EnrichStop(p, DetailFound(p), PhotosFound)

\* the lookups made for k stops: one detail and one user photo lookup per
\* stop, one Google photo lookup where fewer than 5 user photos came back
LookedUp(k, google) ==
  [lookups EXCEPT !.detail = @ + k, !.user_photos = @ + k,
                  !.google_photos = @ + google]

Enrich ==
  /\ pc = "enrich"
  /\ places_with_photos' = [i \in 1..Len(selected_places) |->
                              Enriched(selected_places[i])]
  /\ lookups' = LookedUp(Len(selected_places), Len(selected_places))
  /\ pc' = "route"
  /\ UNCHANGED <<failed_modes, status, cur, req, quality_places, idx,
                 used_place_ids, selected_places, routes, response,
                 own_failed, stale>>
  /\ UNCHANGED <<calls_log, selections, used_seen, outcome>>
  /\ UNCHANGED direct

\* the first PlaceWithPhotos cannot be built
EnrichFails ==
  /\ pc = "enrich"
  /\ VariantError
  /\ lookups' = LookedUp(1, 1)
  /\ UNCHANGED <<failed_modes, status, cur, req, quality_places,
                 used_place_ids, response, calls_log, selections, used_seen,
                 own_failed>>
  /\ UNCHANGED direct

\* the estimates follow the mode the client asked for
CalculationModeRequested(mode, effective_mode) == mode

\* the mode handed to calculate_walking_distance, _estimate_visit_time and
\* _estimate_overhead: effective_mode, which is "driving" after a fallback
CalculationMode(mode, effective_mode) == effective_mode

\* the rest of the loop body once directions answered in mode eff
BuildRoute(eff, o) ==
  IF ~OrderValid(o.order, places_with_photos)
  THEN VariantError
  ELSE /\ routes' = Append(routes,
            RouteOption(idx, places_with_photos,
                        RouteData(places_with_photos,
                                  CalculationMode(req.transport_mode, eff), o)))
       /\ outcome' = [outcome EXCEPT ![idx] = "ok"]
       /\ LoopTo(idx + 1)

Logged(mode, o) ==
  calls_log' = Append(calls_log, [variant |-> idx, mode |-> mode, result |-> o.kind])

Route ==
  /\ pc = "route"
  /\ LET eff == EffectiveMode(req.transport_mode, failed_modes)
     IN \E o \in DirectionsOutcomes(Len(places_with_photos)) :
          /\ Logged(eff, o)
          /\ CASE o.kind = "ok" ->
                    /\ BuildRoute(eff, o)
                    /\ UNCHANGED <<failed_modes, own_failed>>
               [] o.kind = "timeout" /\ RetriesAfterTimeout(eff) ->
                    /\ failed_modes' = failed_modes \cup {eff}
                    /\ own_failed' = [own_failed EXCEPT ![cur] = @ \cup {eff}]
                    /\ pc' = "retry"
                    /\ UNCHANGED <<idx, selected_places, places_with_photos,
                                   routes, outcome, stale>>
               [] OTHER ->
                    /\ VariantError
                    /\ UNCHANGED <<failed_modes, own_failed>>
  /\ UNCHANGED <<status, cur, req, quality_places, used_place_ids, response,
                 selections, used_seen, lookups>>
  /\ UNCHANGED direct

Retry ==
  /\ pc = "retry"
  /\ \E o \in DirectionsOutcomes(Len(places_with_photos)) :
       /\ Logged("driving", o)
       /\ IF o.kind = "ok" THEN BuildRoute("driving", o) ELSE VariantError
  /\ UNCHANGED <<failed_modes, status, cur, req, quality_places,
                 used_place_ids, response, selections, used_seen, lookups,
                 own_failed>>
  /\ UNCHANGED direct

Assemble ==
  /\ pc = "assemble"
  /\ IF AllVariantsFailed(routes)
     THEN Return("server_error", << >>)
     ELSE Return("ok", AssignNames(SortRoutes(routes)))
  /\ UNCHANGED failed_modes
  /\ UNCHANGED History
  /\ UNCHANGED direct

Next ==
  \/ \E c \in Calls : Start(c)
  \/ GeocodeOk
  \/ GeocodeFails
  \/ SearchTooFew
  \/ Search
  \/ Select
  \/ Enrich
  \/ EnrichFails
  \/ Route
  \/ Retry
  \/ Assemble

Spec == Init /\ [][Next]_vars

\* ------------------------------------------------------------------------
\* The Variant Selector on its own: the selection steps of one handler over
\* every pool the search can deliver, the build of each variant left open.
\* ------------------------------------------------------------------------
InitSel ==
  /\ failed_modes = {}
  /\ status = [c \in Calls |-> IF c = 1 THEN "running" ELSE "pending"]
  /\ cur = 1
  /\ pc = "select"
  /\ \E n \in 1..MaxNSel :
       \E sr \in SearchOutcomes(n, MaxPoolSel, RatingVals, SelDists) :
          /\ EnoughPlaces(sr)
          /\ req = [num_places |-> n, transport_mode |-> "driving"]
          /\ quality_places = QualityPlaces(sr)
          /\ lookups = [NoLookups EXCEPT !.search = 1, !.found = Len(sr)]
  /\ idx = 1
  /\ used_place_ids = {}
  /\ selected_places = << >>
  /\ places_with_photos = << >>
  /\ routes = << >>
  /\ response = NoResponse
  /\ calls_log = << >>
  /\ outcome = NoOutcome
  /\ selections = << >>
  /\ used_seen = << >>
  /\ own_failed = [c \in Calls |-> {}]
  /\ stale = {}
  /\ args = NoArgs
  /\ result = NoResult

\* lines 396-529 for one variant: it is appended to routes or it raises, and
\* the loop goes on either way
BuildVariant ==
  /\ pc = "enrich"
  /\ LoopTo(idx + 1)
  /\ UNCHANGED <<failed_modes, status, cur, req, quality_places,
                 used_place_ids, routes, response, own_failed>>
  /\ UNCHANGED History
  /\ UNCHANGED direct

NextSel == Select \/ BuildVariant

SpecSel == InitSel /\ [][NextSel]_vars

\* ------------------------------------------------------------------------
\* The pure computations of the pipeline, each called on its own over
\* bounded arguments.
\* ------------------------------------------------------------------------
WalkingTenths == {15, 20, 29, 40, 50, 60, 70, 125}
WalkingTexts ==
  {FormatKm(t) : t \in WalkingTenths} \cup {<<"4", ",", "2", " ", "k", "m">>}
DurationTexts ==
  { <<"4", "5", "m">>, <<"9", "0", "m">>, <<"1", "1", "9", "m">>,
    <<"2", "h", " ", "0", "m">>, <<"2", "h", " ", "3", "0", "m">>,
    <<"3", "h", " ", "2", "0", "m">>, <<"4", "h", " ", "0", "m">>,
    <<"3", "h">>, <<"s", "o", "o", "n">> }
StopTypes == {{}, {"museum"}, {"park"}, {"museum", "park"}}

\* k stops of one kind followed by n - k stops of another
StopsOfTypes(n) ==
  {[i \in 1..n |-> [types |-> IF i <= k THEN a ELSE b]] :
     k \in 0..n, a \in StopTypes, b \in StopTypes}

DifficultyArgs ==
  {[fn |-> "calculate_smart_difficulty", walking_distance |-> w,
    duration |-> d, num_places |-> Len(ps), places |-> ps] :
     w \in WalkingTexts, d \in DurationTexts,
     ps \in UNION {StopsOfTypes(n) : n \in 1..MaxStops}}

PriceVals == {NoPrice} \cup 0..4
PricedStops(n) == [1..n -> [price_level : PriceVals]]
PriceArgs ==
  {[fn |-> "avg_price", places |-> ps] :
     ps \in UNION {PricedStops(n) : n \in 1..MaxPriced}}

\* what the photo collaborators hold for a stop and whether they fail
PhotoOutcomes ==
  [user : 0..MaxPhotos, user_fails : BOOLEAN,
   google : 0..MaxPhotos, google_fails : BOOLEAN]
\* what get_place_details answers
DetailOutcomes ==
  {[kind |-> "error"]} \cup
  [kind : {"ok"}, rating : {45}, types : {{"museum"}, {}},
   price_level : {NoPrice, 3}]
SuggestedPlace ==
  [id |-> 1, rating |-> 40, distance |-> 1, types |-> {"park"}]
EnrichArgs ==
  [fn : {"enrich_stop"}, place_sugg : {SuggestedPlace},
   detail : DetailOutcomes, photos : PhotoOutcomes]

\* search results of 3 places and more, with ratings on both sides of 3.5
FilterRatings == {NoRating, 30, 35, 40}
FilterArgs ==
  {[fn |-> "quality_places", place_suggestions |-> sr] :
     sr \in UNION {SearchResults(k, FilterRatings, {1}) : k \in 3..MaxFiltered}}

\* routes to estimate: travel time, mode, and stops of every visit-time
\* group, some with types of two groups
TravelSeconds == {0, 59, 600, 1800, 3540, 9000}
TimedTypes ==
  {{}, {"museum"}, {"cafe"}, {"park"}, {"store"}, {"church"},
   {"movie_theater"}, {"cafe", "museum"}, {"church", "park"},
   {"movie_theater", "store"}}
DurationArgs ==
  {[fn |-> "duration", travel_seconds |-> t, mode |-> m, places |-> ps] :
     t \in TravelSeconds, m \in Modes,
     ps \in UNION {[1..n -> [types : TimedTypes]] : n \in 1..MaxTimed}}

\* total durations in seconds, around the minute, the hour and the scorer's
\* thresholds, up to 100 hours
TotalSeconds ==
  {0, 1, 59, 60, 61, 119, 600, 3599, 3600, 3601, 3659, 3660, 7199, 7200, 7259, 7260,
   10799, 10800, 14399, 14400, 35999, 36000, 86399, 86400, 359999, 360000}
ScoredDurationArgs ==
  {[fn |-> "scored_duration", total_with_visits |-> s] : s \in TotalSeconds}

CallArgs == DifficultyArgs \cup PriceArgs \cup EnrichArgs \cup FilterArgs \cup DurationArgs \cup ScoredDurationArgs

InitCalls ==
  /\ HandlerIdle
  /\ args \in CallArgs
  /\ result = NoResult

CallDifficulty ==
  /\ args.fn = "calculate_smart_difficulty"
  /\ result = NoResult
  /\ result' =
       [fn |-> args.fn,
        score |-> DifficultyScore(args.walking_distance, args.duration,
                                  args.num_places, args.places),
        value |-> calculate_smart_difficulty(args.walking_distance,
                    args.duration, args.num_places, args.places)]
  /\ UNCHANGED <<failed_modes, status, cur, pc, req, quality_places, idx,
                 used_place_ids, selected_places, places_with_photos, routes,
                 response, own_failed, stale, args>>
  /\ UNCHANGED History

\* lines 475-488 of generate_routes on a list of enriched stops
CallPrice ==
  /\ args.fn = "avg_price"
  /\ result = NoResult
  /\ result' = [fn |-> args.fn, value |-> AvgPrice(args.places)]
  /\ UNCHANGED <<failed_modes, status, cur, pc, req, quality_places, idx,
                 used_place_ids, selected_places, places_with_photos, routes,
                 response, own_failed, stale, args>>
  /\ UNCHANGED History

\* lines 399-453 of generate_routes for one selected place
CallEnrich ==
  /\ args.fn = "enrich_stop"
  /\ result = NoResult
  /\ result' = [fn |-> args.fn,
                value |-> EnrichStop(args.place_sugg, args.detail, args.photos)]
  /\ UNCHANGED <<failed_modes, status, cur, pc, req, quality_places, idx,
                 used_place_ids, selected_places, places_with_photos, routes,
                 response, own_failed, stale, args>>
  /\ UNCHANGED History

\* lines 264-267 of generate_routes on a search result that passed line 256
CallFilter ==
  /\ args.fn = "quality_places"
  /\ result = NoResult
  /\ result' = [fn |-> args.fn, value |-> QualityPlaces(args.place_suggestions)]
  /\ UNCHANGED <<failed_modes, status, cur, pc, req, quality_places, idx,
                 used_place_ids, selected_places, places_with_photos, routes,
                 response, own_failed, stale, args>>
  /\ UNCHANGED History

\* lines 735-753 of build_route_with_optimization
CallDuration ==
  /\ args.fn = "duration"
  /\ result = NoResult
  /\ result' =
       [fn |-> args.fn,
        seconds |-> TotalWithVisits(args.travel_seconds, args.places, args.mode),
        text |-> DurationText(
                   TotalWithVisits(args.travel_seconds, args.places, args.mode))]
  /\ UNCHANGED <<failed_modes, status, cur, pc, req, quality_places, idx,
                 used_place_ids, selected_places, places_with_photos, routes,
                 response, own_failed, stale, args>>
  /\ UNCHANGED History

\* the duration text of build_route_with_optimization (lines 746-753) read
\* by calculate_smart_difficulty (lines 93-114)
CallScoredDuration ==
  /\ args.fn = "scored_duration"
  /\ result = NoResult
  /\ result' =
       [fn |-> args.fn,
        text |-> DurationText(args.total_with_visits),
        minutes |-> DurationMinutes(DurationText(args.total_with_visits)),
        points |-> DurationPoints(DurationText(args.total_with_visits))]
  /\ UNCHANGED <<failed_modes, status, cur, pc, req, quality_places, idx,
                 used_place_ids, selected_places, places_with_photos, routes,
                 response, own_failed, stale, args>>
  /\ UNCHANGED History

NextCalls ==
  \/ CallDifficulty
  \/ CallPrice
  \/ CallEnrich
  \/ CallFilter
  \/ CallDuration
  \/ CallScoredDuration

SpecCalls == InitCalls /\ [][NextCalls]_vars

\* ------------------------------------------------------------------------
\* Properties
\* ------------------------------------------------------------------------
LogIndex == 1..Len(calls_log)
CallsOf(v) == {j \in LogIndex : calls_log[j].variant = v}
NonDrivingTimeout(e) == e.result = "timeout" /\ e.mode # "driving"
DrivingTimeout(e) == e.result = "timeout" /\ e.mode = "driving"
Built == {v \in 1..NumVariants : outcome[v] = "ok"}
Failed == {v \in 1..NumVariants : outcome[v] = "failed"}
VariantsOf(rs) == {rs[i].variant : i \in 1..Len(rs)}

\* C1: within one generation call, once a routing call in a non-driving
\* mode m timed out, m is in the failed-mode cache, the same variant is
\* routed exactly once more, in driving mode, and no later routing call of
\* the call uses m.
C1_ModeFallback ==
  \A i \in LogIndex :
    NonDrivingTimeout(calls_log[i]) =>
      /\ calls_log[i].mode \in failed_modes
      /\ IF i = Len(calls_log)
         THEN pc = "retry" /\ idx = calls_log[i].variant
         ELSE /\ calls_log[i + 1].variant = calls_log[i].variant
              /\ calls_log[i + 1].mode = "driving"
              /\ CallsOf(calls_log[i].variant) = {i, i + 1}
      /\ \A j \in LogIndex : j > i => calls_log[j].mode # calls_log[i].mode

\* C1 witness: transit timed out for the first variant, which was then
\* built in driving mode, and the second variant was routed in driving mode.
C1_Witness ==
  /\ req.transport_mode = "transit"
  /\ Len(calls_log) >= 3
  /\ calls_log[1] = [variant |-> 1, mode |-> "transit", result |-> "timeout"]
  /\ calls_log[2] = [variant |-> 1, mode |-> "driving", result |-> "ok"]
  /\ calls_log[3].variant = 2
  /\ calls_log[3].mode = "driving"
  /\ outcome[1] = "ok"

\* the mode of the first routing call of a variant, from what the call
\* itself has seen before
ModeFromOwnHistory(j) ==
  IF /\ req.transport_mode # "driving"
     /\ \E i \in 1..(j - 1) :
          calls_log[i].result = "timeout" /\ calls_log[i].mode = req.transport_mode
  THEN "driving"
  ELSE req.transport_mode

FirstCallOfVariant(j) ==
  IF j = 1 THEN TRUE ELSE calls_log[j - 1].variant # calls_log[j].variant

\* C2: generation calls do not see each other's fallback decisions: the mode
\* of every routing call follows from the timeouts of the same call alone,
\* and the cache never loses a mode recorded by a call that is still running.
C2_NoCrossTalk ==
  /\ \A d \in Calls : status[d] = "running" => own_failed[d] \subseteq failed_modes
  /\ cur # 0 =>
       \A j \in LogIndex :
         FirstCallOfVariant(j) => calls_log[j].mode = ModeFromOwnHistory(j)

\* C2 witness: the handler found in the cache the very mode it was asked
\* for, left there by an earlier call, and still routed in that mode.
C2_Witness ==
  /\ cur # 0
  /\ req.transport_mode \in stale
  /\ Len(calls_log) >= 1
  /\ calls_log[1].mode = req.transport_mode

\* C3: at the start of a generation call, before its first routing call,
\* the failed-mode cache is empty whatever earlier calls recorded.
C3_FreshCache ==
  (cur # 0 /\ calls_log = << >>) => failed_modes = {}

\* C3 witness: a handler before its first routing call, started on a cache
\* that an earlier call had left non-empty.
C3_Witness ==
  /\ cur # 0
  /\ pc = "route"
  /\ calls_log = << >>
  /\ stale # {}

\* C4: a call that reached variant building returns exactly the variants
\* whose build succeeded, between 1 and 3 of them, 3 when none failed; when
\* all builds failed it ends with a server error, never with an empty list.
C4_ReturnsBuiltVariants ==
  /\ response.kind = "ok" =>
       /\ VariantsOf(response.routes) = Built
       /\ Len(response.routes) = Cardinality(Built)
       /\ Len(response.routes) \in 1..NumVariants
       /\ (Failed = {} => Len(response.routes) = NumVariants)
  /\ (response.kind # "none" /\ Failed = 1..NumVariants) =>
       response.kind = "server_error"
  /\ response.kind = "server_error" => Built = {}

\* C4 witness: a response with two routes after one build failed.
C4_Witness ==
  /\ response.kind = "ok"
  /\ Len(response.routes) = 2
  /\ Cardinality(Failed) = 1

\* C5: an exception while building one variant leaves that variant out and
\* nothing else: the routes built so far stay, and the loop goes on with the
\* next strategy.
VariantFailsNow ==
  /\ cur # 0
  /\ idx \in 1..NumVariants
  /\ outcome[idx] = "none"
  /\ outcome'[idx] = "failed"

C5_FailureOmitsOneVariant ==
  [][VariantFailsNow =>
       /\ routes' = routes
       /\ idx' = idx + 1
       /\ pc' = IF idx < NumVariants THEN "select" ELSE "assemble"
       /\ \A v \in 1..NumVariants : v # idx => outcome'[v] = outcome[v]]_vars

\* C5 witness: the second build failed, the first route is still there and
\* the third was built after the failure.
C5_Witness ==
  /\ pc = "assemble"
  /\ outcome = <<"ok", "failed", "ok">>
  /\ VariantsOf(routes) = {1, 3}

\* C6: a timeout of a routing call in driving mode fails its variant with no
\* further routing call for it, the loop goes on to the later variants, and
\* no variant has more than one timeout recovered.
C6_DrivingTimeoutIsFatal ==
  /\ \A i \in LogIndex :
       DrivingTimeout(calls_log[i]) =>
         /\ outcome[calls_log[i].variant] = "failed"
         /\ \A j \in LogIndex : j > i => calls_log[j].variant # calls_log[i].variant
         /\ cur # 0 => idx > calls_log[i].variant
         /\ cur = 0 => \A v \in 1..NumVariants : outcome[v] # "none"
  /\ \A v \in 1..NumVariants :
       /\ Cardinality(CallsOf(v)) <= 2
       /\ Cardinality({j \in CallsOf(v) : NonDrivingTimeout(calls_log[j])}) <= 1

\* C6 witness: the driving retry of the first variant timed out too, and the
\* second variant was built all the same.
C6_Witness ==
  /\ Len(calls_log) >= 3
  /\ NonDrivingTimeout(calls_log[1])
  /\ DrivingTimeout(calls_log[2])
  /\ calls_log[2].variant = 1
  /\ outcome[1] = "failed"
  /\ outcome[2] = "ok"

NoRepeat(s) == \A i, j \in 1..Len(s) : i # j => s[i].id # s[j].id

C8_UsedBeforeNextStrategy ==
  \A v \in 1..Len(used_seen) :
    \A u \in 1..(v - 1) : Ids(selections[u]) \subseteq used_seen[v]

\* C8 witness: furthest_good has selected after the build of closest failed
\* and the build of best_rated succeeded.
C8_Witness ==
  /\ Len(used_seen) = NumVariants
  /\ pc = "enrich"
  /\ outcome[1] = "failed"
  /\ outcome[2] = "ok"
  /\ Ids(selections[1]) \cup Ids(selections[2]) \subseteq used_seen[3]

\* C9: the three selections are pairwise different ordered sequences, for
\* every admitted pool and every requested count.
C9_DistinctSelections ==
  \A u, v \in 1..Len(selections) : u # v => selections[u] # selections[v]

\* C10: the returned routes are in ascending order of parsed walking distance.
C10_SortedByWalkingDistance ==
  response.kind = "ok" =>
    \A i \in 1..(Len(response.routes) - 1) :
      ParseDistance(response.routes[i].walking_distance)
        <= ParseDistance(response.routes[i + 1].walking_distance)

\* C10 witness: a response whose first route was built after its second and
\* is strictly shorter to walk.
C10_Witness ==
  /\ response.kind = "ok"
  /\ Len(response.routes) >= 2
  /\ response.routes[1].variant > response.routes[2].variant
  /\ ParseDistance(response.routes[1].walking_distance)
       < ParseDistance(response.routes[2].walking_distance)

PlaceholderIds == {VariantId(i) : i \in 1..NumVariants}
RouteIds(rs) == {rs[i].id : i \in 1..Len(rs)}

\* C11: a response with k routes carries, in list order, the first k of
\* (route_facile/Facile, route_moyen/Moyen, route_difficile/Difficile): the
\* ids are pairwise distinct, none is a placeholder id, no name is empty,
\* and route_difficile is there only when all three variants were built.
C11_LabelsInOrder ==
  response.kind = "ok" =>
    LET rs == response.routes
    IN /\ Len(rs) \in 1..NumVariants
       /\ \A i \in 1..Len(rs) :
            /\ rs[i].id = DifficultyIds[i]
            /\ rs[i].name = DifficultyNames[i]
            /\ rs[i].id \notin PlaceholderIds
            /\ rs[i].name # ""
       /\ Cardinality(RouteIds(rs)) = Len(rs)
       /\ "route_difficile" \in RouteIds(rs) => Built = 1..NumVariants

\* C11 witness: a response of two routes, the variant built third first;
\* they are route_facile and route_moyen.
C11_Witness ==
  /\ response.kind = "ok"
  /\ Len(response.routes) = 2
  /\ response.routes[1].variant = 3
  /\ response.routes[1].id = "route_facile"
  /\ response.routes[2].id = "route_moyen"

Scored == result.fn = "calculate_smart_difficulty"
Museums(n) == [i \in 1..n |-> [types |-> {"museum"}]]
Parks(n) == [i \in 1..n |-> [types |-> {"park"}]]
Untyped(n) == [i \in 1..n |-> [types |-> {}]]

\* the spec's table, factor by factor
TableWalking(tenths) ==
  CASE tenths < 20 -> 5 [] tenths \in 20..29 -> 10 [] tenths \in 30..49 -> 20
    [] tenths \in 50..69 -> 30 [] OTHER -> 40
TableStops(n) ==
  CASE n <= 3 -> 5 [] n \in 4..5 -> 12 [] n \in 6..7 -> 20 [] OTHER -> 25
TableDuration(minutes) ==
  CASE minutes < 0 -> 10 [] minutes \in 0..119 -> 3 [] minutes \in 120..179 -> 8
    [] minutes \in 180..239 -> 15 [] OTHER -> 20
TableTypes(n, energy, relaxing) ==
  CASE 2 * energy > n -> 15
    [] 2 * energy <= n /\ 10 * energy > 3 * n -> 10
    [] 10 * energy <= 3 * n /\ 2 * relaxing > n -> 3
    [] OTHER -> 7

\* the minutes the duration texts of DurationTexts stand for, -1 for a text
\* that is no duration
MinutesMeant(d) ==
  CASE d = <<"4", "5", "m">> -> 45
    [] d = <<"9", "0", "m">> -> 90
    [] d = <<"1", "1", "9", "m">> -> 119
    [] d = <<"2", "h", " ", "0", "m">> -> 120
    [] d = <<"2", "h", " ", "3", "0", "m">> -> 150
    [] d = <<"3", "h", " ", "2", "0", "m">> -> 200
    [] d = <<"4", "h", " ", "0", "m">> -> 240
    [] d = <<"3", "h">> -> 180
    [] OTHER -> -1

\* C12: the score is the sum of the four factor points of the table, the
\* energy-demanding rule tested before the relaxing rule, and the three
\* fixtures score 20/easy, 80/hard and 43/moderate.
C12_ScoreIsTableSum ==
  Scored =>
    /\ result.score =
         TableWalking(WalkingKm(args.walking_distance))
           + TableStops(args.num_places)
           + TableDuration(MinutesMeant(args.duration))
           + TableTypes(args.num_places,
                        CountOfTypes(args.places, EnergyDemandingTypes),
                        CountOfTypes(args.places, RelaxingTypes))
    /\ (/\ args.walking_distance = FormatKm(15)
        /\ args.duration = <<"9", "0", "m">>
        /\ args.places = Untyped(3))
         => result.score = 20 /\ result.value = "easy"
    /\ (/\ args.walking_distance = FormatKm(60)
        /\ args.duration = <<"3", "h", " ", "2", "0", "m">>
        /\ args.places = Museums(6))
         => result.score = 80 /\ result.value = "hard"
    /\ (/\ args.walking_distance = FormatKm(40)
        /\ args.duration = <<"2", "h", " ", "3", "0", "m">>
        /\ args.places = Parks(5))
         => result.score = 43 /\ result.value = "moderate"

\* C12 witness: every stop is both a museum and a park, so that both rules
\* apply, and the energy-demanding one decided.
C12_Witness ==
  /\ Scored
  /\ args.num_places = 2
  /\ \A i \in 1..2 : args.places[i].types = {"museum", "park"}
  /\ args.walking_distance = FormatKm(15)
  /\ args.duration = <<"9", "0", "m">>
  /\ result.score = 5 + 5 + 3 + 15

\* C13: the score is an integer within 0..100, and the classification is
\* easy exactly when score <= 35, moderate exactly when 36 <= score <= 65,
\* hard exactly when score > 65.
C13_ScoreRangeAndBuckets ==
  Scored =>
    /\ result.score \in 0..100
    /\ result.value \in {"easy", "moderate", "hard"}
    /\ result.value = "easy" <=> result.score <= 35
    /\ result.value = "moderate" <=> result.score \in 36..65
    /\ result.value = "hard" <=> result.score > 65

\* C13 witness: a route that scores exactly 35 and is easy.
C13_Witness ==
  /\ Scored
  /\ result.score = 35
  /\ result.value = "easy"

Priced == result.fn = "avg_price"
HasPrice(p) == p.price_level # NoPrice
SymbolOfMax(m) ==
  CASE m \in {0, 1} -> "$" [] m = 2 -> "$$" [] m = 3 -> "$$$" [] m = 4 -> "$$$$"

C15_TooFewCandidates ==
  (lookups.search >= 1 /\ lookups.found < 3) =>
    /\ cur = 0
    /\ response.kind = "not_found"
    /\ response.routes = << >>
    /\ lookups.search = 1
    /\ lookups.detail = 0
    /\ lookups.user_photos = 0
    /\ lookups.google_photos = 0
    /\ selections = << >>
    /\ calls_log = << >>

\* C15 witness: the search of the second call found two candidates.
C15_Witness ==
  /\ response.call = 2
  /\ response.kind = "not_found"
  /\ lookups.search = 1
  /\ lookups.found = 2

EnrichedOne == result.fn = "enrich_stop"

\* C16: the photo list of an enriched stop has at most 8 entries and every
\* user photo precedes every Google photo, whatever number of photos the
\* two collaborators hold.
C16_PhotosCappedUserFirst ==
  EnrichedOne =>
    LET photos == result.value.photos
    IN /\ Len(photos) <= 8
       /\ \A i, j \in 1..Len(photos) :
            (photos[i].source = "google" /\ photos[j].source = "user") => j < i
       /\ \A i \in 1..Len(photos) : photos[i].source \in {"user", "google"}

\* C16 witness: three user photos were found and the Google lookup had more
\* than asked for; the list has 8 photos, the user photos in front.
C16_Witness ==
  /\ EnrichedOne
  /\ args.photos.user = 3
  /\ args.photos.google = MaxPhotos
  /\ Len(result.value.photos) = 8
  /\ result.value.photos[3].source = "user"
  /\ result.value.photos[4].source = "google"

\* C17: the closest strategy, which reads an empty used set, returns the n
\* candidates nearest to the start in ascending order of distance, for
\* every pool, a pool with a candidate at distance 0 included.
C17_ClosestIsNearest ==
  Len(selections) >= 1 =>
    LET sel == selections[1]
        rest == {p \in Range(quality_places) : p.id \notin Ids(sel)}
    IN /\ \A i, j \in 1..Len(sel) : i < j => sel[i].distance <= sel[j].distance
       /\ \A i \in 1..Len(sel) : \A p \in rest : sel[i].distance <= p.distance

UnusedIds(v) == Ids(quality_places) \ used_seen[v]

\* C18: a strategy selects a candidate that is already in the used set only
\* when every unused candidate of the pool is in its selection: a selection
\* holds min(n, number of unused candidates) unused candidates.
C18_UnusedFirst ==
  \A v \in 1..Len(selections) :
    LET n == Min(req.num_places, Len(quality_places))
        chosen == Ids(selections[v])
    IN /\ Cardinality(chosen \ used_seen[v]) = Min(n, Cardinality(UnusedIds(v)))
       /\ chosen \cap used_seen[v] # {} => UnusedIds(v) \subseteq chosen

\* C18 witness: with 2 places asked for and a pool of 5, furthest_good found
\* one unused candidate, took it, and filled up with a used one.
C18_Witness ==
  /\ Len(selections) = NumVariants
  /\ req.num_places = 2
  /\ Len(quality_places) = 5
  /\ Cardinality(UnusedIds(3)) = 1
  /\ UnusedIds(3) \subseteq Ids(selections[3])
  /\ Ids(selections[3]) \cap used_seen[3] # {}

\* C19: the best_rated and the furthest_good selections each hold at least
\* floor(n/2) candidates that no earlier strategy of the call selected.
C19_HalfNewPlaces ==
  \A v \in 2..Len(selections) :
    Cardinality(Ids(selections[v]) \ used_seen[v])
      >= Min(req.num_places, Len(quality_places)) \div 2

DifficultyRank(d) == CASE d = "easy" -> 1 [] d = "moderate" -> 2 [] d = "hard" -> 3

\* C20: in every response the difficulty classification never decreases
\* along the label order Facile, Moyen, Difficile.
C20_DifficultyAscending ==
  response.kind = "ok" =>
    \A i \in 1..(Len(response.routes) - 1) :
      DifficultyRank(response.routes[i].difficulty)
        <= DifficultyRank(response.routes[i + 1].difficulty)

Filtered == result.fn = "quality_places"
RatedWell(p) == p.rating # NoRating /\ p.rating >= 35

\* C21: the pool of the selection is the searched candidates rated 3.5 or
\* more (no rating counting as 0) in their search order when there are at
\* least 3 of them, the whole search result otherwise; it has at least 3
\* candidates.
C21_QualityFilter ==
  Filtered =>
    LET searched == args.place_suggestions
        rated == SelectSeq(searched, RatedWell)
    IN /\ Len(rated) >= 3 => result.value = rated
       /\ Len(rated) < 3 => result.value = searched
       /\ Len(result.value) >= 3

\* C21 witness: of 4 candidates found, two are rated 3.5 or more, one less
\* and one not at all; the pool is all 4.
C21_Witness ==
  /\ Filtered
  /\ Len(args.place_suggestions) = 4
  /\ Len(SelectSeq(args.place_suggestions, RatedWell)) = 2
  /\ \E i \in 1..4 : args.place_suggestions[i].rating = NoRating
  /\ \E i \in 1..4 : args.place_suggestions[i].rating = 30
  /\ result.value = args.place_suggestions

IsPermutation(order, k) ==
  /\ Len(order) = k
  /\ {order[i] : i \in 1..Len(order)} = 0..(k - 1)

\* the stops of route r are its selection reordered by the order routing
\* returned, each selected stop once
StopsFollowOrder(r) ==
  LET sel == selections[r.variant]
  IN IsPermutation(r.order, Len(sel)) =>
       /\ Len(r.places) = Len(sel)
       /\ \A i \in 1..Len(sel) : r.places[i].id = sel[r.order[i] + 1].id
       /\ \A i \in 1..Len(sel) :
            Cardinality({j \in 1..Len(r.places) : r.places[j].id = sel[i].id}) = 1
       /\ r.num_places = Len(sel)

Timed == result.fn = "duration"

\* the visit time of the spec: the first group, in the listed order, that
\* the stop has a type of
VisitGroups ==
  << [types |-> {"museum", "art_gallery", "aquarium", "zoo"}, minutes |-> 75],
     [types |-> {"restaurant", "cafe", "bar", "meal_takeaway"}, minutes |-> 50],
     [types |-> {"park", "natural_feature", "garden", "hiking_area"}, minutes |-> 35],
     [types |-> {"shopping_mall", "store", "clothing_store"}, minutes |-> 45],
     [types |-> {"church", "tourist_attraction", "landmark", "monument"}, minutes |-> 20],
     [types |-> {"amusement_park", "movie_theater", "bowling_alley"}, minutes |-> 90] >>
Matching(types) == {g \in 1..Len(VisitGroups) : VisitGroups[g].types \cap types # {}}
VisitOfSpec(types) ==
  IF Matching(types) = {} THEN 30
  ELSE VisitGroups[CHOOSE g \in Matching(types) :
                     \A h \in Matching(types) : g <= h].minutes
OverheadOfSpec(mode) ==
  CASE mode = "walking" -> 1 [] mode = "transit" -> 10
    [] mode = "bicycling" -> 3 [] mode = "driving" -> 7
RECURSIVE SumOver(_, _)
SumOver(places, i) ==
  IF i = 0 THEN 0 ELSE VisitOfSpec(places[i].types) + SumOver(places, i - 1)

\* C23: the duration in seconds is travel time + the visit times of the
\* stops + the number of stops times the overhead of the mode, and its text
\* is "Xh Ym" from one hour on and "Ym" below, X and Y being the whole
\* hours and the whole minutes left.
C23_DurationEstimate ==
  Timed =>
    /\ result.seconds =
         args.travel_seconds + 60 * SumOver(args.places, Len(args.places))
           + Len(args.places) * 60 * OverheadOfSpec(args.mode)
    /\ \E x \in 0..24, y \in 0..59 :
         /\ 3600 * x + 60 * y <= result.seconds
         /\ result.seconds < 3600 * x + 60 * y + 60
         /\ result.text =
              IF result.seconds >= 3600
              THEN NatToText(x) \o <<"h", " ">> \o NatToText(y) \o <<"m">>
              ELSE NatToText(y) \o <<"m">>

\* C23 witness: a transit route of 30 minutes through a museum that is also
\* a cafe and a plain stop: 1800 + (75 + 30) * 60 + 2 * 600 seconds, "2h 35m".
C23_Witness ==
  /\ Timed
  /\ args.mode = "transit"
  /\ args.travel_seconds = 1800
  /\ Len(args.places) = 2
  /\ args.places[1].types = {"cafe", "museum"}
  /\ args.places[2].types = {}
  /\ result.seconds = 9300
  /\ result.text = <<"2", "h", " ", "3", "5", "m">>

PhotosFrom(photos, source) ==
  Cardinality({i \in 1..Len(photos) : photos[i].source = source})

\* C24: a failed detail lookup or photo lookup still yields the stop: with
\* the candidate's own rating and types and no price level when the detail
\* lookup failed, without user photos when the user photo lookup failed,
\* without Google photos when the Google photo lookup failed.
C24_LookupFailuresTolerated ==
  EnrichedOne =>
    /\ DOMAIN result.value = {"id", "rating", "types", "price_level", "photos"}
    /\ result.value.id = args.place_sugg.id
    /\ args.detail.kind = "error" =>
         /\ result.value.rating = args.place_sugg.rating
         /\ result.value.types = args.place_sugg.types
         /\ result.value.price_level = NoPrice
    /\ args.photos.user_fails =>
         /\ PhotosFrom(result.value.photos, "user") = 0
         /\ ~args.photos.google_fails =>
              Len(result.value.photos) = Min(args.photos.google, 8)
    /\ args.photos.google_fails =>
         /\ PhotosFrom(result.value.photos, "google") = 0
         /\ ~args.photos.user_fails =>
              Len(result.value.photos) = Min(args.photos.user, 5)
    /\ (args.photos.user_fails /\ args.photos.google_fails) =>
         result.value.photos = << >>

\* C24 witness: the detail lookup and the user photo lookup failed, Google
\* had two photos; the stop has the candidate's types, no price level and
\* the two Google photos.
C24_Witness ==
  /\ EnrichedOne
  /\ args.detail.kind = "error"
  /\ args.photos.user_fails
  /\ args.photos.user = 4
  /\ ~args.photos.google_fails
  /\ args.photos.google = 2
  /\ result.value.types = {"park"}
  /\ result.value.price_level = NoPrice
  /\ Len(result.value.photos) = 2

AmplePool == Len(quality_places) >= 3 * req.num_places

\* no candidate is in two of the selections made so far
SelectionsDisjoint ==
  \A u, v \in 1..Len(selections) :
    u # v => Ids(selections[u]) \cap Ids(selections[v]) = {}

\* the pool candidates other than p that are at least as near as p
NotFurtherThan(p) ==
  {q \in Range(quality_places) : q.id # p.id /\ q.distance <= p.distance}

\* C25: with a pool of at least 3n candidates the three selections are
\* pairwise disjoint, and no candidate of furthest_good is one of the n
\* nearest: at least n others are as near as it is.
C25_DisjointWhenAmple ==
  AmplePool =>
    /\ SelectionsDisjoint
    /\ Len(selections) = NumVariants =>
         \A i \in 1..Len(selections[3]) :
           Cardinality(NotFurtherThan(selections[3][i])) >= req.num_places

\* ------------------------------------------------------------------------
\* C26: a route whose routing call was answered in driving although the
\* client asked for another mode (the mode was substituted, or the call was
\* retried after a timeout) has the walking distance of driving, 35% of the
\* total distance, and a duration with driving's overhead of 7 minutes per
\* stop.
\* ------------------------------------------------------------------------
AnsweredInDriving(v) ==
  \E j \in CallsOf(v) : calls_log[j].mode = "driving" /\ calls_log[j].result = "ok"

FellBack(r) == req.transport_mode # "driving" /\ AnsweredInDriving(r.variant)

DrivingShareText(meters) == FormatKm(RoundDiv(meters * 35, 10000))

RECURSIVE VisitSeconds(_)
VisitSeconds(places) ==
  IF places = << >> THEN 0
  ELSE VisitMinutes(Head(places).types) * 60 + VisitSeconds(Tail(places))

DrivingDurationText(r) ==
  DurationText(r.seconds + VisitSeconds(r.places) + r.num_places * 7 * 60)

C26_FallbackUsesDriving ==
  cur # 0 =>
    \A i \in 1..Len(routes) :
      FellBack(routes[i]) =>
        /\ routes[i].walking_distance = DrivingShareText(routes[i].meters)
        /\ routes[i].duration = DrivingDurationText(routes[i])

\* a transit request: the first variant was built by the retry, the second
\* by substitution
C26_Witness ==
  /\ cur # 0
  /\ req.transport_mode = "transit"
  /\ Len(routes) >= 2
  /\ FellBack(routes[1]) /\ FellBack(routes[2])
  /\ Cardinality(CallsOf(1)) = 2
  /\ Cardinality(CallsOf(2)) = 1
  /\ routes[1].meters = 4000
  /\ routes[1].walking_distance = <<"1", ".", "4", " ", "k", "m">>

\* ------------------------------------------------------------------------
\* C27: a generation call makes at most 4 routing calls: every variant is
\* routed at most once in its starting mode, and at most one variant of the
\* call is routed a second time, by the driving retry.
\* ------------------------------------------------------------------------
Retried == {v \in 1..NumVariants : Cardinality(CallsOf(v)) > 1}

C27_AtMostFourRoutingCalls ==
  /\ Len(calls_log) <= 4
  /\ \A v \in 1..NumVariants : Cardinality(CallsOf(v)) <= 2
  /\ Cardinality(Retried) <= 1
  /\ \A j \in LogIndex : calls_log[j].variant \in 1..NumVariants

\* four calls: the first variant timed out and was retried, the other two
\* started in driving
C27_Witness ==
  /\ Len(calls_log) = 4
  /\ Retried = {1}
  /\ calls_log[1].result = "timeout"
  /\ calls_log[3].mode = "driving" /\ calls_log[4].mode = "driving"
  /\ calls_log[4].variant = 3

\* ------------------------------------------------------------------------
\* C28: the failed-mode cache never holds the driving mode, whatever has
\* timed out, and a request for driving is always routed in driving.
\* ------------------------------------------------------------------------
C28_DrivingNeverCached ==
  /\ "driving" \notin failed_modes
  /\ (cur # 0 /\ req.transport_mode = "driving") =>
        \A j \in LogIndex : calls_log[j].mode = "driving"

\* a call in transit timed out and so did its driving retry: the cache
\* holds transit alone
C28_Witness ==
  /\ Len(calls_log) >= 2
  /\ NonDrivingTimeout(calls_log[1])
  /\ DrivingTimeout(calls_log[2])
  /\ calls_log[2].variant = calls_log[1].variant
  /\ failed_modes = {"transit"}

\* ------------------------------------------------------------------------
\* C29: the scorer reads the duration text the estimator writes for a total
\* of s seconds as floor(s / 60) minutes; the points are those of the
\* duration table, never the 10 of an unreadable duration.
\* ------------------------------------------------------------------------
C29_DurationRoundTrip ==
  result.fn = "scored_duration" =>
    /\ result.minutes = args.total_with_visits \div 60
    /\ result.points = TableDuration(args.total_with_visits \div 60)
    /\ result.points # 10

\* 2 h 1 min less a second, written "2h 0m" and read as 120 minutes
C29_Witness ==
  /\ result.fn = "scored_duration"
  /\ args.total_with_visits = 7259
  /\ result.text = <<"2", "h", " ", "0", "m">>
  /\ result.minutes = 120
  /\ result.points = 8

\* ------------------------------------------------------------------------
\* C30: when furthest_good runs, every candidate of the middle range, the
\* positions [skip/2, skip) of the distance order with
\* skip = min(poolSize div 2, n), is already used; the middle backfill adds
\* nothing, and a selection that is short is completed by the last resort,
\* in ascending distance order.
\* ------------------------------------------------------------------------
FurthestRan == Len(selections) >= 3
FurthestN == RequestedPlaces(req.num_places, quality_places)
FurthestUsed == used_seen[3]
FurthestSkip == Min(Len(quality_places) \div 2, FurthestN)
FurthestMiddle ==
  {PlacesByDistance(quality_places)[k] :
     k \in ((FurthestSkip \div 2) + 1)..FurthestSkip}
FurthestFirst ==
  Take(ByRating(Available(Drop(PlacesByDistance(quality_places), FurthestSkip),
                          FurthestUsed)),
       FurthestN)
NotInFirst(p) == p \notin Range(FurthestFirst)
LastResort ==
  Take(SelectSeq(PlacesByDistance(quality_places), NotInFirst),
       FurthestN - Len(FurthestFirst))

C30_MiddleBackfillAddsNothing ==
  FurthestRan =>
    /\ \A p \in FurthestMiddle : p.id \in FurthestUsed
    /\ MiddleFill(FurthestFirst, quality_places, FurthestUsed, FurthestN)
         = FurthestFirst
    /\ selections[3] = FurthestFirst \o LastResort

\* furthest_good is short of places, its middle range is not empty, and the
\* selection is completed from the near end of the distance order
C30_Witness ==
  /\ FurthestRan
  /\ Len(FurthestFirst) < FurthestN
  /\ FurthestMiddle # {}
  /\ Len(selections[3]) = FurthestN
  /\ selections[3][Len(FurthestFirst) + 1] = PlacesByDistance(quality_places)[1]
====
